---------------------------- MODULE Spec2Model ----------------------------
(***************************************************************************)
(* Model of the preprocessing package (src/preprocessing):                 *)
(*   chunkers.py     chunk_by_fixed_size, chunk_by_paragraph,              *)
(*                   chunk_by_semantic, _postprocess_chunks, _get_model    *)
(*   cleaners.py     clean_text and its stages                             *)
(*   normalizers.py  normalize_text and its stages, _load_word_set         *)
(*   pipeline.py     PreprocessingPipeline.process_file and run            *)
(*                                                                         *)
(* Each part has its own variables and its own specification (Spec,        *)
(* SpecFixed, SpecParagraph, SpecSplit, SpecClean, SpecRun, SpecLazy); the *)
(* variables of the other parts stay at their idle values.                 *)
(*                                                                         *)
(* A Python str is a sequence of one-character strings; Python's 0-based   *)
(* indices are kept in the variables and shifted by one only where a       *)
(* sequence is read.                                                       *)
(***************************************************************************)
EXTENDS Integers, Sequences, FiniteSets, TLC

(* ------------------------------ bounds -------------------------------- *)

\* Longest text of the exhaustively enumerated inputs.
MaxTextLen == 5

\* Entries of the fixed-size chunk list the model keeps; a window loop that
\* never ends appends for ever in the program, the model keeps the first
\* MaxChunks entries.
MaxChunks == 10

\* Lowest window start followed; a loop that falls below it is not followed
\* further.
StartFloor == 12

(* ------------------------ Python str operations ----------------------- *)

Max(a, b) == IF a >= b THEN a ELSE b

Min(a, b) == IF a <= b THEN a ELSE b

\* str.isspace on one character of the alphabet
IsSpace(c) == c \in {" ", "\n", "\t", "\r"}

RECURSIVE LStrip(_)
LStrip(s) == IF s # <<>> /\ IsSpace(Head(s)) THEN LStrip(Tail(s)) ELSE s

RECURSIVE RStrip(_)
RStrip(s) ==
    IF s # <<>> /\ IsSpace(s[Len(s)]) THEN RStrip(SubSeq(s, 1, Len(s) - 1)) ELSE s

\* str.strip()
Strip(s) == RStrip(LStrip(s))

\* a slice bound as Python resolves it: negative counts from the end, then clamp
SliceIndex(i, n) == IF i < 0 THEN Max(n + i, 0) ELSE Min(i, n)

\* s[i:j]
Slice(s, i, j) == SubSeq(s, SliceIndex(i, Len(s)) + 1, SliceIndex(j, Len(s)))

\* s[i:]
SliceFrom(s, i) == SubSeq(s, SliceIndex(i, Len(s)) + 1, Len(s))

\* 0-based positions at which pat occurs in s
Occurrences(s, pat) ==
    {i \in 0..(Len(s) - Len(pat)) : SubSeq(s, i + 1, i + Len(pat)) = pat}

\* str.rfind(pat): the highest position, -1 when there is none
RFind(s, pat) ==
    IF Occurrences(s, pat) = {} THEN -1
    ELSE CHOOSE i \in Occurrences(s, pat) : \A j \in Occurrences(s, pat) : j <= i

\* str.find(pat): the lowest position, -1 when there is none
Find(s, pat) ==
    IF Occurrences(s, pat) = {} THEN -1
    ELSE CHOOSE i \in Occurrences(s, pat) : \A j \in Occurrences(s, pat) : i <= j

\* sep.join(parts)
RECURSIVE Join(_, _)
Join(parts, sep) ==
    IF parts = <<>> THEN <<>>
    ELSE IF Len(parts) = 1 THEN parts[1]
    ELSE parts[1] \o sep \o Join(Tail(parts), sep)

\* str.split(sep) for a non-empty separator: left to right, empty pieces kept
RECURSIVE Split(_, _)
Split(s, sep) ==
    IF Find(s, sep) = -1 THEN <<s>>
    ELSE <<Slice(s, 0, Find(s, sep))>> \o Split(SliceFrom(s, Find(s, sep) + Len(sep)), sep)

\* [f(x) for x in xs if keep(x)] with f = strip and keep = non-empty after strip
RECURSIVE StripAndDropEmpty(_)
StripAndDropEmpty(xs) ==
    IF xs = <<>> THEN <<>>
    ELSE IF Strip(Head(xs)) # <<>> THEN <<Strip(Head(xs))>> \o StripAndDropEmpty(Tail(xs))
    ELSE StripAndDropEmpty(Tail(xs))

(* ------------------------------- state -------------------------------- *)

VARIABLES
    op,             \* the strategy called: "fixed", "paragraph" or "semantic"
    text,           \* the text argument of the call
    chunk_size,     \* chunk_by_fixed_size's chunk_size
    overlap,        \* chunk_by_fixed_size's overlap
    min_chunk_size, \* min_chunk_size of chunk_by_paragraph / chunk_by_semantic
    max_chunk_size, \* chunk_by_semantic's max_chunk_size
    breakpoint_percentile,  \* chunk_by_semantic's breakpoint_percentile
    pc,             \* where the call is: "call", "embed", "split", "fs_loop"
                    \*   (at the while test), "fs_body" (in the while body),
                    \*   "returned" (a list came back) or "raised" (an exception did)
    sentences,      \* chunk_by_semantic's locals: the split sentences,
    n_embeddings,   \*   len(embeddings),
    similarities,   \*   the cosine similarities (times 2),
    breakpoints,    \*   the breakpoint list,
    raw_chunks,     \*   the groups between breakpoints,
    merged,         \* _postprocess_chunks' locals: the merge pass's list,
    mi,             \*   the split pass's position in it (1-based),
    final,          \*   the split pass's list
    fs_text,        \* the running chunk_by_fixed_size frame: its text,
    fs_size,        \*   its chunk_size,
    fs_overlap,     \*   its overlap,
    start,          \*   its window start,
    chunks,         \*   its chunk list
    result          \* the list returned to the caller

config == <<op, text, chunk_size, overlap, min_chunk_size, max_chunk_size,
            breakpoint_percentile>>

semantic_locals == <<sentences, n_embeddings, similarities, breakpoints, raw_chunks>>

fs_frame == <<fs_text, fs_size, fs_overlap, start, chunks>>

chunker_vars == <<config, pc, semantic_locals, merged, mi, final, fs_frame, result>>

\* the state of the other modules of the package
VARIABLES
    nltk_env,       \* normalizers.py: what "import nltk" and the word corpus do here:
                    \*   "not_installed", "corpus_missing" (and not downloadable),
                    \*   "corpus_downloadable" or "corpus_present"
    raw,            \* cleaners.py: the text given to clean_text,
    cleaned,        \*   clean_text(raw),
    recleaned,      \*   clean_text(clean_text(raw)),
    clean_pc,       \*   "idle", "call", "once", "twice" or "raised"
    files,          \* pipeline.py: run()'s file list, the documents behind the paths,
    fidx,           \*   the for loop's position in it (1-based),
    output_paths,   \*   run()'s output_paths,
    errors,         \*   run()'s errors,
    document,       \*   what the last process_file call did,
    run_pc,         \*   "idle", "loop" or "returned"
    model_obj,      \* chunkers.py: the global _model (0 is None, else the object),
    word_cache,     \* normalizers.py: _load_word_set's lru_cache (0 is empty),
    n_models,       \* SentenceTransformer objects constructed so far,
    n_word_sets,    \* word sets constructed so far,
    tcall,          \* per thread: the function it calls, "model" or "words",
    tpc,            \*   where it is in that function,
    tlocal,         \*   the object it constructed (0: none),
    tres            \*   the object returned to it (0: none yet)

clean_vars == <<nltk_env, raw, cleaned, recleaned, clean_pc>>

pipeline_vars == <<files, fidx, output_paths, errors, document, run_pc>>

lazy_vars == <<model_obj, word_cache, n_models, n_word_sets, tcall, tpc, tlocal, tres>>

vars == <<chunker_vars, clean_vars, pipeline_vars, lazy_vars>>

\* what a record of process_file holds before any call
NoDocument == [error |-> "", chunks |-> <<>>]

\* clean_text is not being called
CleanIdle ==
    /\ nltk_env = "not_installed"
    /\ raw = <<>>
    /\ cleaned = <<>>
    /\ recleaned = <<>>
    /\ clean_pc = "idle"

\* run() is not being called
PipelineIdle ==
    /\ files = <<>>
    /\ fidx = 1
    /\ output_paths = <<>>
    /\ errors = <<>>
    /\ document = NoDocument
    /\ run_pc = "idle"

\* no thread is asking for a lazily built resource
LazyIdle ==
    /\ model_obj = 0
    /\ word_cache = 0
    /\ n_models = 0
    /\ n_word_sets = 0
    /\ tcall = <<>>
    /\ tpc = <<>>
    /\ tlocal = <<>>
    /\ tres = <<>>

\* the chunkers are not being called
ChunkerIdle ==
    /\ op = "none"
    /\ text = <<>>
    /\ chunk_size = 0
    /\ overlap = 0
    /\ min_chunk_size = 0
    /\ max_chunk_size = 0
    /\ breakpoint_percentile = 0
    /\ pc = "idle"
    /\ sentences = <<>>
    /\ n_embeddings = 0
    /\ similarities = <<>>
    /\ breakpoints = <<>>
    /\ raw_chunks = <<>>
    /\ merged = <<>>
    /\ mi = 1
    /\ final = <<>>
    /\ fs_text = <<>>
    /\ fs_size = 0
    /\ fs_overlap = 0
    /\ start = 0
    /\ chunks = <<>>
    /\ result = <<>>

(* ------------------------------ inputs -------------------------------- *)

Alphabet == {"a", ".", " ", "\n"}

ShortTexts == UNION {[1..n -> Alphabet] : n \in 0..MaxTextLen}

(* ------------------------- chunk_by_fixed_size ------------------------ *)

PeriodSpace == <<".", " ">>

Newline == <<"\n">>

\* break_point = max(last_period, last_newline)
BreakPoint(chunk) == Max(RFind(chunk, PeriodSpace), RFind(chunk, Newline))

\* the cut is retreated: end < len(text) and break_point > chunk_size * 0.3
\* (b > c * 0.3 and 10 b > 3 c agree for every pair of integers in range)
Retreats(txt, st, size) ==
    /\ st + size < Len(txt)
    /\ 10 * BreakPoint(Slice(txt, st, st + size)) > 3 * size

\* a window one character too wide
WindowChunkTooWide(txt, st, size) == Slice(txt, st, st + size + 1)

\* the window's chunk before strip()
WindowChunk(txt, st, size) ==
    IF Retreats(txt, st, size)
    THEN Slice(Slice(txt, st, st + size), 0, BreakPoint(Slice(txt, st, st + size)) + 1)
    ELSE Slice(txt, st, st + size)

\* the window's end
WindowEnd(txt, st, size) ==
    IF Retreats(txt, st, size)
    THEN st + BreakPoint(Slice(txt, st, st + size)) + 1
    ELSE st + size

\* start = end - overlap if end < len(text) else end
NextStart(txt, end, ovl) == IF end < Len(txt) THEN end - ovl ELSE end

\* chunks.append(chunk) without the "if chunk" test
AppendChunkUnchecked(cs, chunk) ==
    IF Len(cs) < MaxChunks THEN Append(cs, chunk) ELSE cs

\* chunks.append(chunk) if chunk (the model keeps MaxChunks entries)
AppendChunk(cs, chunk) ==
    IF chunk # <<>> /\ Len(cs) < MaxChunks THEN Append(cs, chunk) ELSE cs

\* chunk_by_fixed_size(text, chunk_size, overlap), up to its loop
CallFixed ==
    /\ pc = "call"
    /\ op = "fixed"
    /\ IF Strip(text) = <<>>
       THEN /\ pc' = "returned"
            /\ result' = <<>>
            /\ UNCHANGED fs_frame
       ELSE /\ pc' = "fs_loop"
            /\ fs_text' = text
            /\ fs_size' = chunk_size
            /\ fs_overlap' = overlap
            /\ start' = 0
            /\ chunks' = <<>>
            /\ UNCHANGED result
    /\ UNCHANGED <<clean_vars, pipeline_vars, lazy_vars>>
    /\ UNCHANGED <<config, semantic_locals, merged, mi, final>>

\* the test "while start < len(text)" holds: the loop enters its body
FixedWhile ==
    /\ pc = "fs_loop"
    /\ start < Len(fs_text)
    /\ start >= -StartFloor
    /\ pc' = "fs_body"
    /\ UNCHANGED <<clean_vars, pipeline_vars, lazy_vars>>
    /\ UNCHANGED <<config, semantic_locals, merged, mi, final, fs_frame, result>>

\* the body of "while start < len(text)": one window
FixedStep ==
    /\ pc = "fs_body"
    /\ chunks' = AppendChunk(chunks, Strip(WindowChunk(fs_text, start, fs_size)))
    /\ start' = NextStart(fs_text, WindowEnd(fs_text, start, fs_size), fs_overlap)
    /\ pc' = "fs_loop"
    /\ UNCHANGED <<clean_vars, pipeline_vars, lazy_vars>>
    /\ UNCHANGED <<config, semantic_locals, merged, mi, final,
                   fs_text, fs_size, fs_overlap, result>>

\* the loop's exit and "return chunks": to the caller of chunk_by_fixed_size,
\* or into the split pass's final.extend(sub_chunks)
FixedReturn ==
    /\ pc = "fs_loop"
    /\ start >= Len(fs_text)
    /\ IF op = "fixed"
       THEN /\ pc' = "returned"
            /\ result' = chunks
            /\ UNCHANGED <<mi, final>>
       ELSE /\ pc' = "split"
            /\ final' = final \o chunks
            /\ mi' = mi + 1
            /\ UNCHANGED result
    /\ UNCHANGED <<clean_vars, pipeline_vars, lazy_vars>>
    /\ UNCHANGED <<config, semantic_locals, merged, fs_frame>>

(* ------------------------- chunk_by_paragraph ------------------------- *)

BlankLine == <<"\n", "\n">>

\* the "for para in paragraphs" loop from paragraph i on; the accumulator is
\* <<chunks, current_chunk, current_length>>
RECURSIVE ParagraphLoop(_, _, _, _)
ParagraphLoop(paragraphs, i, acc, min_size) ==
    IF i > Len(paragraphs) THEN acc
    ELSE LET para == Strip(paragraphs[i])
             cur == Append(acc[2], para)
             len == acc[3] + Len(para)
         IN IF para = <<>> THEN ParagraphLoop(paragraphs, i + 1, acc, min_size)
            ELSE IF len >= min_size
            THEN ParagraphLoop(paragraphs, i + 1,
                               <<Append(acc[1], Join(cur, BlankLine)), <<>>, 0>>, min_size)
            ELSE ParagraphLoop(paragraphs, i + 1, <<acc[1], cur, len>>, min_size)

\* a trailing block that always emits the remainder as a chunk of its own
ParagraphRemainderOwnChunk(acc, min_size) ==
    IF acc[2] = <<>> THEN acc[1] ELSE Append(acc[1], Join(acc[2], BlankLine))

\* the trailing "if current_chunk:" block
ParagraphRemainder(acc, min_size) ==
    IF acc[2] = <<>> THEN acc[1]
    ELSE IF acc[1] # <<>> /\ acc[3] < min_size
    THEN [acc[1] EXCEPT ![Len(acc[1])] = @ \o BlankLine \o Join(acc[2], BlankLine)]
    ELSE Append(acc[1], Join(acc[2], BlankLine))

\* chunk_by_paragraph(text, min_chunk_size)
ChunkByParagraph(txt, min_size) ==
    IF Strip(txt) = <<>> THEN <<>>
    ELSE ParagraphRemainder(
             ParagraphLoop(Split(txt, BlankLine), 1, <<<<>>, <<>>, 0>>, min_size), min_size)

CallParagraph ==
    /\ pc = "call"
    /\ op = "paragraph"
    /\ pc' = "returned"
    /\ result' = ChunkByParagraph(text, min_chunk_size)
    /\ UNCHANGED <<clean_vars, pipeline_vars, lazy_vars>>
    /\ UNCHANGED <<config, semantic_locals, merged, mi, final, fs_frame>>


(* ------------------------ _split_into_sentences ----------------------- *)

Terminators == {".", "!", "?"}

Space == <<" ">>

\* where the pattern (?<=[.!?])\s+ first matches: the lowest 0-based i with a
\* whitespace at i and a terminator at i - 1, or -1
SentenceBreak(s) ==
    LET B == {i \in 1..(Len(s) - 1) : IsSpace(s[i + 1]) /\ s[i] \in Terminators}
    IN IF B = {} THEN -1 ELSE CHOOSE i \in B : \A j \in B : i <= j

\* re.split(r'(?<=[.!?])\s+', s): the match takes the whole whitespace run
RECURSIVE RegexSplit(_)
RegexSplit(s) ==
    IF SentenceBreak(s) = -1 THEN <<s>>
    ELSE <<Slice(s, 0, SentenceBreak(s))>>
             \o RegexSplit(LStrip(SliceFrom(s, SentenceBreak(s))))

\* _split_into_sentences(text)
SplitIntoSentences(txt) == StripAndDropEmpty(RegexSplit(Strip(txt)))

(* -------------------------- chunk_by_semantic ------------------------- *)

\* The embedding provider answers with unit vectors at multiples of 60 degrees;
\* a vector is its multiple.
MaxAngle == 1

Angles == 0..MaxAngle

\* How many vectors the provider may answer with for n sentences.
EmbeddingCounts(n) == {n - 1, n, n + 1}

Abs(x) == IF x < 0 THEN -x ELSE x

\* 2 * cos(60 d degrees): the cosine similarity of two of the vectors, times 2
CosTimes2(d) == CASE d = 0 -> 2 [] d = 1 -> 1 [] d = 2 -> -1 [] OTHER -> -2

\* the loop "for i in range(len(embeddings) - 1)"
Similarities(emb) ==
    [i \in 1..(Len(emb) - 1) |-> CosTimes2(Abs(emb[i] - emb[i + 1]))]

\* np.percentile rejects q outside [0, 100]
PercentileRaises(q) == q < 0 \/ q > 100

\* 100 * np.percentile(sims, q) by linear interpolation, sims non-empty
Percentile100(sims, q) ==
    LET n    == Len(sims)
        s    == SortSeq(sims, LAMBDA a, b : a < b)
        lo   == (q * (n - 1)) \div 100
        frac == (q * (n - 1)) % 100
        hi   == Min(lo + 1, n - 1)
    IN 100 * s[lo + 1] + frac * (s[hi + 1] - s[lo + 1])

\* a comparison under which a similarity equal to the threshold breaks
IsAtMost(sim, t100) == 100 * sim <= t100

\* a comparison that breaks where the similarity is high
IsAbove(sim, t100) == 100 * sim > t100

\* sim < threshold, the threshold given times 100
IsBelow(sim, t100) == 100 * sim < t100

\* a loop that appends i, the index before the break, instead of i + 1
RECURSIVE FindBreakpointsBefore(_, _, _)
FindBreakpointsBefore(sims, t100, i) ==
    IF i >= Len(sims) THEN <<>>
    ELSE (IF IsBelow(sims[i + 1], t100) THEN <<i>> ELSE <<>>)
             \o FindBreakpointsBefore(sims, t100, i + 1)

\* the loop "for i, sim in enumerate(similarities)" from 0-based i on
RECURSIVE FindBreakpoints(_, _, _)
FindBreakpoints(sims, t100, i) ==
    IF i >= Len(sims) THEN <<>>
    ELSE (IF IsBelow(sims[i + 1], t100) THEN <<i + 1>> ELSE <<>>)
             \o FindBreakpoints(sims, t100, i + 1)

\* a group's text if it is not empty
GroupOf(sents) ==
    IF Strip(Join(sents, Space)) # <<>> THEN <<Strip(Join(sents, Space))>> ELSE <<>>

\* the loop "for bp in breakpoints" without the last group
RECURSIVE GroupSentencesNoLast(_, _, _)
GroupSentencesNoLast(sents, bps, st) ==
    IF bps = <<>> THEN <<>>
    ELSE GroupOf(Slice(sents, st, Head(bps)))
             \o GroupSentencesNoLast(sents, Tail(bps), Head(bps))

\* the loop "for bp in breakpoints" and the last group
RECURSIVE GroupSentences(_, _, _)
GroupSentences(sents, bps, st) ==
    IF bps = <<>> THEN GroupOf(SliceFrom(sents, st))
    ELSE GroupOf(Slice(sents, st, Head(bps))) \o GroupSentences(sents, Tail(bps), Head(bps))

(* ------------------------- _postprocess_chunks ------------------------ *)

\* the body of "for chunk in chunks" on the accumulator <<merged, buffer>>
MergeStep(acc, chunk, min_size, max_size) ==
    LET combined == acc[2] \o Space \o chunk
        added == IF acc[2] # <<>>
                 THEN IF Len(combined) <= max_size
                      THEN <<acc[1], combined>>
                      ELSE <<Append(acc[1], acc[2]), chunk>>
                 ELSE <<acc[1], chunk>>
    IN IF Len(added[2]) >= min_size THEN <<Append(added[1], added[2]), <<>>>> ELSE added

RECURSIVE MergeLoop(_, _, _, _, _)
MergeLoop(cs, i, acc, min_size, max_size) ==
    IF i > Len(cs) THEN acc
    ELSE MergeLoop(cs, i + 1, MergeStep(acc, cs[i], min_size, max_size), min_size, max_size)

\* a trailing block that always emits the remainder as a chunk of its own
MergeRemainderOwnChunk(acc, min_size) ==
    IF acc[2] = <<>> THEN acc[1] ELSE Append(acc[1], acc[2])

\* the trailing "if buffer:" block
MergeRemainder(acc, min_size) ==
    IF acc[2] = <<>> THEN acc[1]
    ELSE IF acc[1] # <<>> /\ Len(acc[2]) < min_size
    THEN [acc[1] EXCEPT ![Len(acc[1])] = @ \o Space \o acc[2]]
    ELSE Append(acc[1], acc[2])

\* the merge pass: the list "merged"
MergePass(cs, min_size, max_size) ==
    MergeRemainder(MergeLoop(cs, 1, <<<<>>, <<>>>>, min_size, max_size), min_size)

\* the overlap the split pass hands to chunk_by_fixed_size
SplitOverlap == 50

(* ---------------------- chunk_by_semantic: actions -------------------- *)

\* a small-input path taken by fewer than two sentences only
FewSentencesBelowTwo(sents) == Len(sents) < 2

\* "if len(sentences) <= 2": the small-input path
FewSentences(sents) == Len(sents) <= 2

\* chunk_by_semantic up to the embedding call
CallSemantic ==
    /\ pc = "call"
    /\ op = "semantic"
    /\ IF Strip(text) = <<>>
       THEN /\ pc' = "returned"
            /\ result' = <<>>
            /\ UNCHANGED sentences
       ELSE /\ sentences' = SplitIntoSentences(text)
            /\ IF FewSentences(sentences')
               THEN /\ pc' = "returned"
                    /\ result' = GroupOf(sentences')
               ELSE /\ pc' = "embed"
                    /\ UNCHANGED result
    /\ UNCHANGED <<clean_vars, pipeline_vars, lazy_vars>>
    /\ UNCHANGED <<config, n_embeddings, similarities, breakpoints, raw_chunks,
                   merged, mi, final, fs_frame>>

\* the provider raises: the exception leaves chunk_by_semantic
EmbedRaises ==
    /\ pc = "embed"
    /\ pc' = "raised"
    /\ UNCHANGED <<clean_vars, pipeline_vars, lazy_vars>>
    /\ UNCHANGED <<config, semantic_locals, merged, mi, final, fs_frame, result>>

\* steps 2 to 5 and the merge pass, after a threshold was computed
GroupAndMerge(bps) ==
    /\ breakpoints' = bps
    /\ raw_chunks' = GroupSentences(sentences, bps, 0)
    /\ merged' = MergePass(raw_chunks', min_chunk_size, max_chunk_size)
    /\ mi' = 1
    /\ final' = <<>>
    /\ pc' = "split"

\* the provider answers with emb: similarities, threshold (np.percentile may
\* raise), breakpoints, groups and the merge pass
EmbedAnswers ==
    /\ pc = "embed"
    /\ \E n \in EmbeddingCounts(Len(sentences)) : \E emb \in [1..n -> Angles] :
         /\ n_embeddings' = n
         /\ similarities' = Similarities(emb)
         /\ IF PercentileRaises(100 - breakpoint_percentile)
            THEN /\ pc' = "raised"
                 /\ UNCHANGED <<breakpoints, raw_chunks, merged, mi, final>>
            ELSE GroupAndMerge(FindBreakpoints(similarities',
                     Percentile100(similarities', 100 - breakpoint_percentile), 0))
    /\ UNCHANGED <<clean_vars, pipeline_vars, lazy_vars>>
    /\ UNCHANGED <<config, sentences, fs_frame, result>>

\* a split pass that keeps every chunk
FitsMaxAlways(chunk, max_size) == TRUE

\* the split pass keeps a chunk as it is: "if len(chunk) <= max_size"
FitsMax(chunk, max_size) == Len(chunk) <= max_size

\* one iteration of the split pass's "for chunk in merged"
SplitStep ==
    /\ pc = "split"
    /\ mi <= Len(merged)
    /\ IF FitsMax(merged[mi], max_chunk_size)
       THEN /\ final' = Append(final, merged[mi])
            /\ mi' = mi + 1
            /\ UNCHANGED <<pc, fs_frame>>
       ELSE IF Strip(merged[mi]) = <<>>
       THEN /\ mi' = mi + 1
            /\ UNCHANGED <<pc, final, fs_frame>>
       ELSE /\ pc' = "fs_loop"
            /\ fs_text' = merged[mi]
            /\ fs_size' = max_chunk_size
            /\ fs_overlap' = SplitOverlap
            /\ start' = 0
            /\ chunks' = <<>>
            /\ UNCHANGED <<mi, final>>
    /\ UNCHANGED <<clean_vars, pipeline_vars, lazy_vars>>
    /\ UNCHANGED <<config, semantic_locals, merged, result>>

\* "return final" and chunk_by_semantic's "return chunks"
SemanticReturn ==
    /\ pc = "split"
    /\ mi > Len(merged)
    /\ pc' = "returned"
    /\ result' = final
    /\ UNCHANGED <<clean_vars, pipeline_vars, lazy_vars>>
    /\ UNCHANGED <<config, semantic_locals, merged, mi, final, fs_frame>>

(* ------------------------------ inputs -------------------------------- *)

\* Sentences of the long inputs: LongWord letters or one letter, then a
\* terminator; three (the fewest that reach the embedding step) to
\* MaxSentences of them, joined by single spaces.
LongWord == 98

MaxSentences == 4

Word(k) == [i \in 1..k |-> "a"]

LongTexts ==
    UNION {{Join([i \in 1..n |-> Word(ks[i]) \o <<term>>], Space) :
                ks \in [1..n -> {1, LongWord}]} :
           n \in 3..MaxSentences, term \in {".", "!"}}

\* the defaults of the signatures
DefaultChunkSize == 500

DefaultOverlap == 50

DefaultMinChunkSize == 100

DefaultMaxChunkSize == 1500

DefaultPercentile == 80

FixedSizes == 0..3

FixedOverlaps == 0..2

ParagraphMins == 1..3

SemanticMins == {1, 10, 101}

SemanticMaxs == {2, 100}

SemanticPercentiles == {0, 50, 100, 101}

(* --------------------------- specification ---------------------------- *)

InitFixed ==
    /\ op = "fixed"
    /\ text \in ShortTexts
    /\ chunk_size \in FixedSizes
    /\ overlap \in FixedOverlaps
    /\ min_chunk_size = DefaultMinChunkSize
    /\ max_chunk_size = DefaultMaxChunkSize
    /\ breakpoint_percentile = DefaultPercentile

InitParagraph ==
    /\ op = "paragraph"
    /\ text \in ShortTexts
    /\ min_chunk_size \in ParagraphMins
    /\ chunk_size = DefaultChunkSize
    /\ overlap = DefaultOverlap
    /\ max_chunk_size = DefaultMaxChunkSize
    /\ breakpoint_percentile = DefaultPercentile

InitSemantic ==
    /\ op = "semantic"
    /\ text \in ShortTexts \cup LongTexts
    /\ min_chunk_size \in SemanticMins
    /\ max_chunk_size \in SemanticMaxs
    /\ breakpoint_percentile \in SemanticPercentiles
    /\ chunk_size = DefaultChunkSize
    /\ overlap = DefaultOverlap

Init ==
    /\ InitFixed \/ InitParagraph \/ InitSemantic
    /\ CleanIdle
    /\ PipelineIdle
    /\ LazyIdle
    /\ pc = "call"
    /\ sentences = <<>>
    /\ n_embeddings = 0
    /\ similarities = <<>>
    /\ breakpoints = <<>>
    /\ raw_chunks = <<>>
    /\ merged = <<>>
    /\ mi = 1
    /\ final = <<>>
    /\ fs_text = <<>>
    /\ fs_size = 0
    /\ fs_overlap = 0
    /\ start = 0
    /\ chunks = <<>>
    /\ result = <<>>

Next ==
    \/ CallFixed
    \/ FixedWhile
    \/ FixedStep
    \/ FixedReturn
    \/ CallParagraph
    \/ CallSemantic
    \/ EmbedRaises
    \/ EmbedAnswers
    \/ SplitStep
    \/ SemanticReturn

Spec == Init /\ [][Next]_vars

\* the interpreter keeps running the call while it has a step to take
FairSpec == Spec /\ WF_vars(Next)

(* ------------------------------ fixed only ---------------------------- *)

\* chunk_by_fixed_size called on its own
InitFixedOnly == Init /\ op = "fixed"

NextFixed == CallFixed \/ FixedWhile \/ FixedStep \/ FixedReturn

SpecFixed == InitFixedOnly /\ [][NextFixed]_vars

\* the interpreter keeps running the loop while it has an iteration to run
FairSpecFixed == SpecFixed /\ WF_vars(NextFixed)

(* ----------------------- chunk_by_paragraph only ---------------------- *)

\* Texts of up to MaxParagraphs pieces joined by blank lines: empty and blank
\* pieces, and paragraphs of one to three characters.
MaxParagraphs == 4

MaxParagraphMin == 4

ParagraphPieces == {<<>>, <<" ">>, <<"a">>, <<"a", "a">>, <<"a", "\n", "a">>}

ParagraphTexts ==
    UNION {{Join(ps, BlankLine) : ps \in [1..n -> ParagraphPieces]} :
           n \in 0..MaxParagraphs}

\* chunk_by_paragraph called on its own
InitParagraphOnly ==
    /\ op = "paragraph"
    /\ text \in ParagraphTexts
    /\ min_chunk_size \in 1..MaxParagraphMin
    /\ chunk_size = DefaultChunkSize
    /\ overlap = DefaultOverlap
    /\ max_chunk_size = DefaultMaxChunkSize
    /\ breakpoint_percentile = DefaultPercentile
    /\ CleanIdle
    /\ PipelineIdle
    /\ LazyIdle
    /\ pc = "call"
    /\ sentences = <<>>
    /\ n_embeddings = 0
    /\ similarities = <<>>
    /\ breakpoints = <<>>
    /\ raw_chunks = <<>>
    /\ merged = <<>>
    /\ mi = 1
    /\ final = <<>>
    /\ fs_text = <<>>
    /\ fs_size = 0
    /\ fs_overlap = 0
    /\ start = 0
    /\ chunks = <<>>
    /\ result = <<>>

NextParagraph == CallParagraph

SpecParagraph == InitParagraphOnly /\ [][NextParagraph]_vars

(* ------------------- chunk_by_semantic: the split pass ---------------- *)

\* Texts of three to MaxSentences sentences that end in "!", so that a window
\* of the split pass finds no ". " to retreat to.
ExclaimedTexts ==
    UNION {{Join([i \in 1..n |-> Word(ks[i]) \o <<"!">>], Space) :
                ks \in [1..n -> {1, LongWord}]} :
           n \in 3..MaxSentences}

SplitMins == {1, 10}

\* maximum sizes at and above the split pass's overlap
SplitMaxs == {SplitOverlap, 2 * SplitOverlap}

SplitPercentiles == {0, 50, 100}

\* chunk_by_semantic called with sizes in order and a percentile in [0, 100]
InitSplit ==
    /\ op = "semantic"
    /\ text \in ExclaimedTexts
    /\ min_chunk_size \in SplitMins
    /\ max_chunk_size \in SplitMaxs
    /\ breakpoint_percentile \in SplitPercentiles
    /\ chunk_size = DefaultChunkSize
    /\ overlap = DefaultOverlap
    /\ CleanIdle
    /\ PipelineIdle
    /\ LazyIdle
    /\ pc = "call"
    /\ sentences = <<>>
    /\ n_embeddings = 0
    /\ similarities = <<>>
    /\ breakpoints = <<>>
    /\ raw_chunks = <<>>
    /\ merged = <<>>
    /\ mi = 1
    /\ final = <<>>
    /\ fs_text = <<>>
    /\ fs_size = 0
    /\ fs_overlap = 0
    /\ start = 0
    /\ chunks = <<>>
    /\ result = <<>>

NextSplit ==
    \/ CallSemantic
    \/ EmbedRaises
    \/ EmbedAnswers
    \/ SplitStep
    \/ FixedWhile
    \/ FixedStep
    \/ FixedReturn
    \/ SemanticReturn

SpecSplit == InitSplit /\ [][NextSplit]_vars

\* the steps whose enabling condition is spelled out below
SplitWork == CallSemantic \/ SplitStep \/ FixedStep

\* a state in which one of SplitWork's steps can be taken
SplitWorkEnabled ==
    \/ pc = "call"
    \/ pc = "split" /\ mi <= Len(merged)
    \/ pc = "fs_body"

SplitControl ==
    EmbedRaises \/ EmbedAnswers \/ FixedWhile \/ FixedReturn \/ SemanticReturn

\* The interpreter keeps running the call while it has a step to take: weak
\* fairness of NextSplit. In every state the steps of at most one of
\* SplitControl and SplitWork can be taken, so that is weak fairness of each
\* of the two; the one of SplitWork is written out, with its enabling
\* condition as the guards of its actions.
FairSpecSplit ==
    /\ SpecSplit
    /\ WF_vars(SplitControl)
    /\ ([]<>~SplitWorkEnabled \/ []<><<SplitWork>>_vars)

(* ------------------- cleaners.py and normalizers.py ------------------- *)

\* The characters of the texts given to clean_text. "<NUL>" stands for U+0000
\* and "<EMDASH>" for U+2014; the capitals are those of the markers that
\* tag_urls_and_emails writes. Positions in this section are 1-based.
Letters == {"a", "h", "p", "s", "t", "A", "E", "I", "L", "M", "R", "U"}

Digits == {"1"}

\* [a-zA-Z]
IsLetter(c) == c \in Letters

\* \d
IsDigit(c) == c \in Digits

\* \w
IsWordChar(c) == IsLetter(c) \/ IsDigit(c) \/ c = "_"

\* the first position from i on whose character is not in the class P, or
\* Len(s) + 1: where a greedy run of P that starts at i ends
RunEnd(s, i, P(_)) ==
    LET stops == {j \in i..Len(s) : ~P(s[j])}
    IN IF stops = {} THEN Len(s) + 1
       ELSE CHOOSE j \in stops : \A k \in stops : j <= k

\* \b at position i: between s[i - 1] and s[i]
WordBoundary(s, i) ==
    LET before == i > 1 /\ i - 1 <= Len(s) /\ IsWordChar(s[i - 1])
        after  == i >= 1 /\ i <= Len(s) /\ IsWordChar(s[i])
    IN before # after

\* the number of "[a-zA-Z] " pairs from position i on
RECURSIVE SpacedPairs(_, _)
SpacedPairs(s, i) ==
    IF i + 1 <= Len(s) /\ IsLetter(s[i]) /\ s[i + 1] = " "
    THEN 1 + SpacedPairs(s, i + 2)
    ELSE 0

\* \b([a-zA-Z] ){3,}[a-zA-Z]\b at i: the largest number of pairs, at least 3,
\* that a letter and a word boundary follow
SpacedWordEnd(s, i) ==
    LET ks == {k \in 3..SpacedPairs(s, i) :
                  /\ i + 2 * k <= Len(s)
                  /\ IsLetter(s[i + 2 * k])
                  /\ WordBoundary(s, i + 2 * k + 1)}
    IN IF WordBoundary(s, i) /\ ks # {}
       THEN i + 2 * (CHOOSE k \in ks : \A j \in ks : j <= k) + 1
       ELSE 0

\* (\w)-\s*\n\s*(\w) at i: the whitespace after the hyphen holds a newline
\* and a word character follows it
HyphenBreakEnd(s, i) ==
    LET e == RunEnd(s, i + 2, IsSpace)
    IN IF /\ i + 1 <= Len(s)
          /\ IsWordChar(s[i])
          /\ s[i + 1] = "-"
          /\ \E j \in (i + 2)..(e - 1) : s[j] = "\n"
          /\ e <= Len(s)
          /\ IsWordChar(s[e])
       THEN e + 1
       ELSE 0

\* (?<=\S)  +(?=\S) at i
DoubleSpaceEnd(s, i) ==
    LET e == RunEnd(s, i, LAMBDA c : c = " ")
    IN IF /\ i > 1
          /\ ~IsSpace(s[i - 1])
          /\ e - i >= 2
          /\ e <= Len(s)
          /\ ~IsSpace(s[e])
       THEN e
       ELSE 0

\* (\w)\s+-(\w) at i
SpaceHyphenEnd(s, i) ==
    LET e == RunEnd(s, i + 1, IsSpace)
    IN IF /\ IsWordChar(s[i])
          /\ e > i + 1
          /\ e + 1 <= Len(s)
          /\ s[e] = "-"
          /\ IsWordChar(s[e + 1])
       THEN e + 2
       ELSE 0

\* (\w)-\s+(\w) at i
HyphenSpaceEnd(s, i) ==
    LET e == RunEnd(s, i + 2, IsSpace)
    IN IF /\ i + 1 <= Len(s)
          /\ IsWordChar(s[i])
          /\ s[i + 1] = "-"
          /\ e > i + 2
          /\ e <= Len(s)
          /\ IsWordChar(s[e])
       THEN e + 1
       ELSE 0

\* str.lower on one character
Lower(c) ==
    CASE c = "A" -> "a" [] c = "E" -> "e" [] c = "I" -> "i" [] c = "L" -> "l"
      [] c = "M" -> "m" [] c = "R" -> "r" [] c = "U" -> "u" [] OTHER -> c

LowerSeq(s) == [i \in 1..Len(s) |-> Lower(s[i])]

\* the literal lit stands at position i of s, letter case ignored
LiteralAt(s, i, lit) ==
    /\ i + Len(lit) - 1 <= Len(s)
    /\ LowerSeq(SubSeq(s, i, i + Len(lit) - 1)) = lit

\* [^\s<>\"')\]]
IsUrlChar(c) == ~IsSpace(c) /\ c \notin {"<", ">", "\"", "'", ")", "]"}

\* https?://[^\s<>\"')\]]+ at i, with re.IGNORECASE
UrlEnd(s, i) ==
    LET body == IF LiteralAt(s, i, <<"h", "t", "t", "p", "s", ":", "/", "/">>)
                THEN i + 8
                ELSE IF LiteralAt(s, i, <<"h", "t", "t", "p", ":", "/", "/">>)
                THEN i + 7
                ELSE 0
        e    == RunEnd(s, body, IsUrlChar)
    IN IF body > 0 /\ e > body THEN e ELSE 0

\* [a-zA-Z0-9._%+-]
IsEmailLocal(c) == IsLetter(c) \/ IsDigit(c) \/ c \in {".", "_", "%", "+", "-"}

\* [a-zA-Z0-9.-]
IsEmailDomain(c) == IsLetter(c) \/ IsDigit(c) \/ c \in {".", "-"}

\* [a-zA-Z0-9._%+-]+@[a-zA-Z0-9.-]+\.[a-zA-Z]{2,} at i: the domain is cut at
\* its last dot that two letters follow
EmailEnd(s, i) ==
    LET at   == RunEnd(s, i, IsEmailLocal)
        d    == RunEnd(s, at + 1, IsEmailDomain)
        dots == {j \in (at + 2)..(d - 3) :
                    s[j] = "." /\ IsLetter(s[j + 1]) /\ IsLetter(s[j + 2])}
    IN IF at > i /\ at <= Len(s) /\ s[at] = "@" /\ dots # {}
       THEN RunEnd(s, (CHOOSE j \in dots : \A k \in dots : k <= j) + 1, IsLetter)
       ELSE 0

\* \b([A-Za-z]{2,})\s([A-Za-z]{2,})\b at i: <<end of the left fragment, end of
\* the match>>, or <<0, 0>>
BrokenWordEnds(s, i) ==
    LET l == RunEnd(s, i, IsLetter)
        r == RunEnd(s, l + 1, IsLetter)
    IN IF /\ WordBoundary(s, i)
          /\ l - i >= 2
          /\ l <= Len(s)
          /\ IsSpace(s[l])
          /\ r - (l + 1) >= 2
          /\ WordBoundary(s, r)
       THEN <<l, r>>
       ELSE <<0, 0>>

\* where the pattern pat matches at position i of s: the position after the
\* match, or 0 when it does not match there
MatchEnd(pat, s, i) ==
    CASE pat = "blanks" ->
            LET e == RunEnd(s, i, LAMBDA c : IsSpace(c) /\ c # "\n")
            IN IF e > i THEN e ELSE 0
      [] pat = "newlines" ->
            LET e == RunEnd(s, i, LAMBDA c : c = "\n")
            IN IF e - i >= 3 THEN e ELSE 0
      [] pat = "punctuation" ->
            LET e == RunEnd(s, i, LAMBDA c : c \in {"!", "?", "."})
            IN IF e - i >= 2 THEN e ELSE 0
      [] pat = "rules" ->
            LET e == RunEnd(s, i, LAMBDA c : c \in {"-", "=", "_"})
            IN IF e - i >= 3 THEN e ELSE 0
      [] pat = "spaced_word" -> SpacedWordEnd(s, i)
      [] pat = "hyphen_break" -> HyphenBreakEnd(s, i)
      [] pat = "double_space" -> DoubleSpaceEnd(s, i)
      [] pat = "space_hyphen" -> SpaceHyphenEnd(s, i)
      [] pat = "hyphen_space" -> HyphenSpaceEnd(s, i)
      [] pat = "url" -> UrlEnd(s, i)
      [] pat = "email" -> EmailEnd(s, i)
      [] OTHER -> 0

\* what re.sub writes for the match s[i..e-1] of pat
Replacement(pat, s, i, e) ==
    CASE pat = "blanks" -> <<" ">>
      [] pat = "newlines" -> <<"\n", "\n">>
      [] pat = "punctuation" -> <<s[e - 1]>>
      [] pat = "rules" -> <<"-", "-", "-">>
      [] pat = "spaced_word" -> SelectSeq(SubSeq(s, i, e - 1), LAMBDA c : c # " ")
      [] pat = "hyphen_break" -> <<s[i], s[e - 1]>>
      [] pat = "double_space" -> <<" ">>
      [] pat = "space_hyphen" -> <<s[i], "-", s[e - 1]>>
      [] pat = "hyphen_space" -> <<s[i], "-", s[e - 1]>>
      [] pat = "url" ->
            <<"[", "U", "R", "L", ":", " ">> \o SubSeq(s, i, e - 1) \o <<"]">>
      [] pat = "email" ->
            <<"[", "E", "M", "A", "I", "L", ":", " ">> \o SubSeq(s, i, e - 1) \o <<"]">>
      [] OTHER -> SubSeq(s, i, e - 1)

\* re.sub(pat, replacement, s): the leftmost matches, none overlapping
RECURSIVE ReSubFrom(_, _, _)
ReSubFrom(pat, s, i) ==
    IF i > Len(s) THEN <<>>
    ELSE LET e == MatchEnd(pat, s, i)
         IN IF e > 0
            THEN Replacement(pat, s, i, e) \o ReSubFrom(pat, s, e)
            ELSE <<s[i]>> \o ReSubFrom(pat, s, i + 1)

ReSub(pat, s) == ReSubFrom(pat, s, 1)

\* each character rewritten by f and the results put end to end
RECURSIVE FlatMap(_, _)
FlatMap(s, f) == IF s = <<>> THEN <<>> ELSE f[Head(s)] \o FlatMap(Tail(s), f)

\* fix_encoding_artifacts: of the sequences it replaces, U+0000 is the one the
\* texts can hold
FixEncodingArtifacts(s) == SelectSeq(s, LAMBDA c : c # "<NUL>")

\* unicodedata.category(char) == "Cc"
IsControl(c) == c \in {"<NUL>", "\r", "\n", "\t"}

\* remove_control_characters
RemoveControlCharacters(s) ==
    SelectSeq(s, LAMBDA c : ~IsControl(c) \/ c \in {"\n", "\t"})

\* unicodedata.normalize("NFKC", text): every character of the texts is its
\* own NFKC form
NormalizeUnicode(s) == s

\* normalize_whitespace
NormalizeWhitespace(s) == Strip(ReSub("newlines", ReSub("blanks", s)))

\* remove_excessive_punctuation
RemoveExcessivePunctuation(s) == ReSub("rules", ReSub("punctuation", s))

\* normalize_typography: of the characters of its four maps, U+2014 is the one
\* the texts can hold
NormalizeTypography(s) ==
    FlatMap(s, [c \in {s[i] : i \in 1..Len(s)} |->
                   IF c = "<EMDASH>" THEN <<" ", "-", " ">> ELSE <<c>>])

\* repair_ocr_artifacts
RepairOcrArtifacts(s) ==
    ReSub("double_space", ReSub("hyphen_break", ReSub("spaced_word", s)))

\* The words of the NLTK corpus that the texts can spell: a stand-in for the
\* corpus, which is data outside the repository.
Dictionary == {<<"a", "a", "a", "a">>}

\* _load_word_set: the set it returns, or the exception that leaves it
LoadWordSet(env) ==
    CASE env = "not_installed" -> [raised |-> "", words |-> {}]
      [] env = "corpus_missing" -> [raised |-> "LookupError", words |-> {}]
      [] OTHER -> [raised |-> "", words |-> Dictionary]

\* _try_merge on the match s[i..r-1] whose left fragment ends before l
TryMerge(s, i, l, r, words) ==
    LET left   == SubSeq(s, i, l - 1)
        right  == SubSeq(s, l + 1, r - 1)
    IN IF /\ LowerSeq(left) \notin words
          /\ LowerSeq(right) \notin words
          /\ LowerSeq(left \o right) \in words
       THEN left \o right
       ELSE SubSeq(s, i, r - 1)

\* pattern.sub(_try_merge, text)
RECURSIVE MergeSubFrom(_, _, _)
MergeSubFrom(s, i, words) ==
    IF i > Len(s) THEN <<>>
    ELSE LET m == BrokenWordEnds(s, i)
         IN IF m[2] > 0
            THEN TryMerge(s, i, m[1], m[2], words) \o MergeSubFrom(s, m[2], words)
            ELSE <<s[i]>> \o MergeSubFrom(s, i + 1, words)

\* the loop "for _ in range(3)" with n passes left
RECURSIVE MergePasses(_, _, _)
MergePasses(s, words, n) ==
    IF n = 0 \/ MergeSubFrom(s, 1, words) = s THEN s
    ELSE MergePasses(MergeSubFrom(s, 1, words), words, n - 1)

\* repair_broken_words with the word set loaded
RepairBrokenWords(s, words) == IF words = {} THEN s ELSE MergePasses(s, words, 3)

\* repair_spaced_hyphens
RepairSpacedHyphens(s) == ReSub("hyphen_space", ReSub("space_hyphen", s))

\* [-–—\s]
IsDashOrSpace(c) == c \in {"-", "<EMDASH>"} \/ IsSpace(c)

\* ^[-–—\s]*\d{1,4}[-–—\s]*$
IsBareNumber(line) ==
    LET a == RunEnd(line, 1, IsDashOrSpace)
        b == RunEnd(line, a, IsDigit)
    IN b - a >= 1 /\ b - a <= 4 /\ RunEnd(line, b, IsDashOrSpace) = Len(line) + 1

\* ^[Pp]age\s+\d+(\s+of\s+\d+)?$
IsPageOf(line) ==
    LET a == RunEnd(line, 5, IsSpace)
        b == RunEnd(line, a, IsDigit)
        c == RunEnd(line, b, IsSpace)
        d == RunEnd(line, c + 2, IsSpace)
    IN /\ Len(line) >= 4
       /\ line[1] \in {"P", "p"}
       /\ SubSeq(line, 2, 4) = <<"a", "g", "e">>
       /\ a > 5
       /\ b > a
       /\ \/ b = Len(line) + 1
          \/ /\ c > b
             /\ c + 1 <= Len(line)
             /\ SubSeq(line, c, c + 1) = <<"o", "f">>
             /\ d > c + 2
             /\ RunEnd(line, d, IsDigit) > d
             /\ RunEnd(line, d, IsDigit) = Len(line) + 1

\* ^\d+\s*\|?\s*$
IsNumberBar(line) ==
    LET a == RunEnd(line, 1, IsDigit)
        b == RunEnd(line, a, IsSpace)
        c == IF b <= Len(line) /\ line[b] = "|" THEN b + 1 ELSE b
    IN a > 1 /\ RunEnd(line, c, IsSpace) = Len(line) + 1

\* the lines remove_header_footer_noise keeps
RECURSIVE KeptLines(_)
KeptLines(lines) ==
    IF lines = <<>> THEN <<>>
    ELSE LET stripped == Strip(Head(lines))
         IN IF IsBareNumber(stripped) \/ IsPageOf(stripped) \/ IsNumberBar(stripped)
            THEN KeptLines(Tail(lines))
            ELSE <<Head(lines)>> \o KeptLines(Tail(lines))

\* remove_header_footer_noise
RemoveHeaderFooterNoise(s) == Join(KeptLines(Split(s, <<"\n">>)), <<"\n">>)

\* normalize_latex: it rewrites backslash commands, braces, $, ^{ and _{, and
\* the texts hold none of these characters
NormalizeLatex(s) == s

\* tag_urls_and_emails
TagUrlsAndEmails(s) == ReSub("email", ReSub("url", s))

\* clean_text up to normalize_text
CleanStages(s) ==
    RemoveExcessivePunctuation(NormalizeWhitespace(NormalizeUnicode(
        RemoveControlCharacters(FixEncodingArtifacts(s)))))

\* normalize_text up to repair_broken_words
NormalizeHead(s) == RepairOcrArtifacts(NormalizeTypography(NormalizeUnicode(s)))

\* normalize_text from repair_broken_words on
NormalizeTail(s, words) ==
    TagUrlsAndEmails(NormalizeLatex(RemoveHeaderFooterNoise(
        RepairSpacedHyphens(RepairBrokenWords(s, words)))))

\* clean_text(s): the exception that leaves it ("" for none) and the text it
\* returns
CleanText(env, s) ==
    LET loaded == LoadWordSet(env)
    IN IF loaded.raised # ""
       THEN [raised |-> loaded.raised, text |-> <<>>]
       ELSE [raised |-> "",
             text   |-> NormalizeTail(NormalizeHead(CleanStages(s)), loaded.words)]


\* Texts given to clean_text: up to MaxPieces pieces put end to end, and up to
\* MaxLines lines joined by newlines.
MaxPieces == 3

MaxLines == 5

CleanPieces ==
    { <<"a">>, <<"a", "a">>, <<"a", " ", "a">>, <<" ">>, <<"\n">>, <<"\t">>,
      <<"\r">>, <<".">>, <<"-">>, <<"1">>, <<"<NUL>">>, <<"<EMDASH>">>,
      <<"h", "t", "t", "p", ":", "/", "/", "a">>,
      <<"a", "@", "a", ".", "a", "a">> }

CleanLines == {<<>>, <<"a">>, <<"1">>}

PieceTexts ==
    UNION {{Join(ps, <<>>) : ps \in [1..n -> CleanPieces]} : n \in 0..MaxPieces}

LineTexts ==
    UNION {{Join(ls, <<"\n">>) : ls \in [1..n -> CleanLines]} : n \in 1..MaxLines}

CleanTexts == PieceTexts \cup LineTexts

NltkEnvs == {"not_installed", "corpus_missing", "corpus_downloadable", "corpus_present"}

\* a call clean_text(raw)
InitClean ==
    /\ nltk_env \in NltkEnvs
    /\ raw \in CleanTexts
    /\ cleaned = <<>>
    /\ recleaned = <<>>
    /\ clean_pc = "call"
    /\ ChunkerIdle
    /\ PipelineIdle
    /\ LazyIdle

\* clean_text(raw) returns or raises
CleanOnce ==
    /\ clean_pc = "call"
    /\ IF CleanText(nltk_env, raw).raised # ""
       THEN /\ clean_pc' = "raised"
            /\ UNCHANGED cleaned
       ELSE /\ clean_pc' = "once"
            /\ cleaned' = CleanText(nltk_env, raw).text
    /\ UNCHANGED <<nltk_env, raw, recleaned>>
    /\ UNCHANGED <<chunker_vars, pipeline_vars, lazy_vars>>

\* clean_text is called on its own result
CleanTwice ==
    /\ clean_pc = "once"
    /\ clean_pc' = "twice"
    /\ recleaned' = CleanText(nltk_env, cleaned).text
    /\ UNCHANGED <<nltk_env, raw, cleaned>>
    /\ UNCHANGED <<chunker_vars, pipeline_vars, lazy_vars>>

NextClean == CleanOnce \/ CleanTwice

SpecClean == InitClean /\ [][NextClean]_vars


(* ----------------------------- pipeline.py ---------------------------- *)

\* DEFAULT_CHUNKER = chunk_by_semantic
DefaultChunker == "chunk_by_semantic"

\* the parameters a chunker takes besides text
ChunkerParams(name) ==
    CASE name = "chunk_by_fixed_size" -> {"chunk_size", "overlap"}
      [] name = "chunk_by_paragraph" -> {"min_chunk_size"}
      [] OTHER -> {"breakpoint_percentile", "min_chunk_size", "max_chunk_size"}

\* the keywords process_file passes to DEFAULT_CHUNKER
ProcessFileKeywords == {"chunk_size", "overlap"}

\* what the chunker name returns for a section of at most two sentences that
\* is shorter than one window, under the pipeline's default sizes
ChunkerResult(name, txt) ==
    CASE name = "chunk_by_fixed_size" ->
            IF Strip(txt) = <<>> THEN <<>>
            ELSE <<Strip(WindowChunk(txt, 0, DefaultChunkSize))>>
      [] name = "chunk_by_paragraph" -> ChunkByParagraph(txt, DefaultMinChunkSize)
      [] OTHER ->
            IF Join(SplitIntoSentences(txt), Space) = <<>> THEN <<>>
            ELSE <<Join(SplitIntoSentences(txt), Space)>>

\* the call name(txt, **keywords): Python raises TypeError for a keyword the
\* function does not take
CallChunker(name, txt, keywords) ==
    IF keywords \subseteq ChunkerParams(name)
    THEN [raised |-> "", chunks |-> ChunkerResult(name, txt)]
    ELSE [raised |-> "TypeError", chunks |-> <<>>]

\* clean_text of every section the extractor yielded
CleanPages(env, pages) == [i \in 1..Len(pages) |-> CleanText(env, pages[i])]

\* the (page_num, cleaned) pairs process_file keeps: the non-empty ones
RECURSIVE CleanedPages(_, _)
CleanedPages(texts, i) ==
    IF i > Len(texts) THEN <<>>
    ELSE (IF texts[i].text # <<>> THEN <<<<i, texts[i].text>>>> ELSE <<>>)
             \o CleanedPages(texts, i + 1)

\* the chunk records of one section, numbered from chunk_id on
NumberChunks(page_chunks, page_num, chunk_id) ==
    [k \in 1..Len(page_chunks) |->
        [chunk_id |-> chunk_id + k - 1, text |-> page_chunks[k], page |-> page_num]]

\* the loop "for page_num, text in cleaned_pages" from section k on
RECURSIVE ChunkSections(_, _, _)
ChunkSections(cleaned_pages, k, chunk_id) ==
    IF k > Len(cleaned_pages) THEN <<>>
    ELSE LET page_chunks ==
                 CallChunker(DefaultChunker, cleaned_pages[k][2], ProcessFileKeywords).chunks
         IN NumberChunks(page_chunks, cleaned_pages[k][1], chunk_id)
                \o ChunkSections(cleaned_pages, k + 1, chunk_id + Len(page_chunks))

\* process_file(doc): the exception that leaves it ("" for none) and the
\* chunk list of the document it returns
ProcessPages(doc, texts, cleaned_pages) ==
    IF doc.extract = "raises"
    THEN [error |-> "ExtractorError", chunks |-> <<>>]
    ELSE IF \E i \in 1..Len(texts) : texts[i].raised # ""
    THEN [error |-> "LookupError", chunks |-> <<>>]
    ELSE IF \E k \in 1..Len(cleaned_pages) :
               CallChunker(DefaultChunker, cleaned_pages[k][2],
                           ProcessFileKeywords).raised # ""
    THEN [error |-> "TypeError", chunks |-> <<>>]
    ELSE [error |-> "", chunks |-> ChunkSections(cleaned_pages, 1, 0)]

ProcessFile(env, doc) ==
    ProcessPages(doc, CleanPages(env, doc.pages),
                 CleanedPages(CleanPages(env, doc.pages), 1))

\* the exception of "process_file; save_output" for a document whose
\* process_file ended as processed ("" for none)
FileError(doc, processed) ==
    IF processed.error # "" THEN processed.error
    ELSE IF doc.save = "raises" THEN "OSError"
    ELSE ""

\* save_output's path for the file at position i of the list
OutputPath(i) == <<"output", i>>

\* a loop that ends at the first document that raised
AbortAfterFailure(i, n) == n + 1

\* the position of the for loop after a document that raised: the handler
\* falls through to the next iteration
AfterFailure(i, n) == i + 1

\* Documents a run meets: what the extractor does with the file, the sections
\* it yields, and whether the output file can be written.
MaxFiles == 3

Documents ==
    { [extract |-> "raises", pages |-> <<>>, save |-> "ok"],
      [extract |-> "ok", pages |-> <<>>, save |-> "ok"],
      [extract |-> "ok", pages |-> << <<" ">>, <<"1">> >>, save |-> "ok"],
      [extract |-> "ok", pages |-> << <<" ">>, <<"1">> >>, save |-> "raises"],
      [extract |-> "ok", pages |-> << <<"a">> >>, save |-> "ok"],
      [extract |-> "ok", pages |-> << <<" ">>, <<"a">>, <<"a", ".", " ", "a">> >>,
       save |-> "ok"] }

FileLists == UNION {[1..n -> Documents] : n \in 0..MaxFiles}

\* a call of run(), after discover_files
InitRun ==
    /\ files \in FileLists
    /\ nltk_env \in {"not_installed", "corpus_missing", "corpus_present"}
    /\ fidx = 1
    /\ output_paths = <<>>
    /\ errors = <<>>
    /\ document = NoDocument
    /\ run_pc = "start"
    /\ raw = <<>>
    /\ cleaned = <<>>
    /\ recleaned = <<>>
    /\ clean_pc = "idle"
    /\ ChunkerIdle
    /\ LazyIdle

\* "if not files: return []", else the lists are set up
RunStart ==
    /\ run_pc = "start"
    /\ run_pc' = IF files = <<>> THEN "returned" ELSE "loop"
    /\ UNCHANGED <<files, fidx, output_paths, errors, document>>
    /\ UNCHANGED <<chunker_vars, clean_vars, lazy_vars>>

\* one iteration of "for filepath in files": the try block and its handler
RunFile ==
    /\ run_pc = "loop"
    /\ fidx <= Len(files)
    /\ document' = ProcessFile(nltk_env, files[fidx])
    /\ IF FileError(files[fidx], document') = ""
       THEN /\ output_paths' = Append(output_paths, OutputPath(fidx))
            /\ fidx' = fidx + 1
            /\ UNCHANGED errors
       ELSE /\ errors' = Append(errors, <<fidx, FileError(files[fidx], document')>>)
            /\ fidx' = AfterFailure(fidx, Len(files))
            /\ UNCHANGED output_paths
    /\ UNCHANGED <<files, run_pc>>
    /\ UNCHANGED <<chunker_vars, clean_vars, lazy_vars>>

\* the loop is over: the summary and "return output_paths"
RunReturn ==
    /\ run_pc = "loop"
    /\ fidx > Len(files)
    /\ run_pc' = "returned"
    /\ UNCHANGED <<files, fidx, output_paths, errors, document>>
    /\ UNCHANGED <<chunker_vars, clean_vars, lazy_vars>>

NextRun == RunStart \/ RunFile \/ RunReturn

SpecRun == InitRun /\ [][NextRun]_vars

(* ------------- _get_model and _load_word_set: first calls ------------- *)

\* Threads of one process that each make one call of _get_model ("model") or
\* of _load_word_set ("words"), the latter with the corpus present. Objects
\* are numbered in order of construction; 0 is None / no entry.
NumThreads == 3

Threads == 1..NumThreads

InitLazy ==
    /\ tcall \in [Threads -> {"model", "words"}]
    /\ tpc = [t \in Threads |-> "start"]
    /\ tlocal = [t \in Threads |-> 0]
    /\ tres = [t \in Threads |-> 0]
    /\ model_obj = 0
    /\ word_cache = 0
    /\ n_models = 0
    /\ n_word_sets = 0
    /\ ChunkerIdle
    /\ CleanIdle
    /\ PipelineIdle

\* _get_model: "if _model is None"
GetModelTest(t) ==
    /\ tcall[t] = "model"
    /\ tpc[t] = "start"
    /\ tpc' = [tpc EXCEPT ![t] = IF model_obj = 0 THEN "construct" ELSE "return"]
    /\ UNCHANGED <<model_obj, word_cache, n_models, n_word_sets, tcall, tlocal, tres>>
    /\ UNCHANGED <<chunker_vars, clean_vars, pipeline_vars>>

\* _get_model: SentenceTransformer("all-MiniLM-L6-v2")
GetModelConstruct(t) ==
    /\ tcall[t] = "model"
    /\ tpc[t] = "construct"
    /\ n_models' = n_models + 1
    /\ tlocal' = [tlocal EXCEPT ![t] = n_models + 1]
    /\ tpc' = [tpc EXCEPT ![t] = "store"]
    /\ UNCHANGED <<model_obj, word_cache, n_word_sets, tcall, tres>>
    /\ UNCHANGED <<chunker_vars, clean_vars, pipeline_vars>>

\* _get_model: "_model = ..."
GetModelStore(t) ==
    /\ tcall[t] = "model"
    /\ tpc[t] = "store"
    /\ model_obj' = tlocal[t]
    /\ tpc' = [tpc EXCEPT ![t] = "return"]
    /\ UNCHANGED <<word_cache, n_models, n_word_sets, tcall, tlocal, tres>>
    /\ UNCHANGED <<chunker_vars, clean_vars, pipeline_vars>>

\* _get_model: "return _model"
GetModelReturn(t) ==
    /\ tcall[t] = "model"
    /\ tpc[t] = "return"
    /\ tres' = [tres EXCEPT ![t] = model_obj]
    /\ tpc' = [tpc EXCEPT ![t] = "done"]
    /\ UNCHANGED <<model_obj, word_cache, n_models, n_word_sets, tcall, tlocal>>
    /\ UNCHANGED <<chunker_vars, clean_vars, pipeline_vars>>

\* lru_cache's wrapper looks the call up: a hit returns the cached object
LoadWordSetLookup(t) ==
    /\ tcall[t] = "words"
    /\ tpc[t] = "start"
    /\ IF word_cache # 0
       THEN /\ tres' = [tres EXCEPT ![t] = word_cache]
            /\ tpc' = [tpc EXCEPT ![t] = "done"]
       ELSE /\ tpc' = [tpc EXCEPT ![t] = "build"]
            /\ UNCHANGED tres
    /\ UNCHANGED <<model_obj, word_cache, n_models, n_word_sets, tcall, tlocal>>
    /\ UNCHANGED <<chunker_vars, clean_vars, pipeline_vars>>

\* a miss runs the body of _load_word_set: the set comprehension
LoadWordSetBuild(t) ==
    /\ tcall[t] = "words"
    /\ tpc[t] = "build"
    /\ n_word_sets' = n_word_sets + 1
    /\ tlocal' = [tlocal EXCEPT ![t] = n_word_sets + 1]
    /\ tpc' = [tpc EXCEPT ![t] = "store"]
    /\ UNCHANGED <<model_obj, word_cache, n_models, tcall, tres>>
    /\ UNCHANGED <<chunker_vars, clean_vars, pipeline_vars>>

\* the wrapper stores the result unless the entry was added meanwhile, and
\* returns the result of its own call
LoadWordSetStore(t) ==
    /\ tcall[t] = "words"
    /\ tpc[t] = "store"
    /\ word_cache' = IF word_cache = 0 THEN tlocal[t] ELSE word_cache
    /\ tres' = [tres EXCEPT ![t] = tlocal[t]]
    /\ tpc' = [tpc EXCEPT ![t] = "done"]
    /\ UNCHANGED <<model_obj, n_models, n_word_sets, tcall, tlocal>>
    /\ UNCHANGED <<chunker_vars, clean_vars, pipeline_vars>>

NextLazy ==
    \E t \in Threads :
        \/ GetModelTest(t)
        \/ GetModelConstruct(t)
        \/ GetModelStore(t)
        \/ GetModelReturn(t)
        \/ LoadWordSetLookup(t)
        \/ LoadWordSetBuild(t)
        \/ LoadWordSetStore(t)

SpecLazy == InitLazy /\ [][NextLazy]_vars

(* ------------------------------- claims ------------------------------- *)

\* every element of a chunk list satisfies P
AllChunks(cs, P(_)) == \A i \in 1..Len(cs) : P(cs[i])

\* chunk_by_semantic returned on a text of more than two sentences
SemanticReturnedMany ==
    pc = "returned" /\ op = "semantic" /\ Len(sentences) > 2

\* the documented bounds of the semantic sizes
ValidSizes == 1 <= min_chunk_size /\ min_chunk_size <= max_chunk_size

\* the merge pass ended with an undersized remainder that it appended to the
\* previous chunk
RemainderAppended ==
    LET acc == MergeLoop(raw_chunks, 1, <<<<>>, <<>>>>, min_chunk_size, max_chunk_size)
    IN acc[2] # <<>> /\ acc[1] # <<>> /\ Len(acc[2]) < min_chunk_size

\* C1: for a text of more than two sentences and 1 <= min_chunk_size <=
\* max_chunk_size, every chunk chunk_by_semantic returns is at most
\* max_chunk_size long.
C1_MaxSizeBound ==
    (SemanticReturnedMany /\ ValidSizes)
        => AllChunks(result, LAMBDA c : Len(c) <= max_chunk_size)

\* C1's case: the merge pass appended an undersized remainder, the chunk grew
\* past max_chunk_size, the split pass re-split it and the call returned.
C1_Witness ==
    /\ SemanticReturnedMany
    /\ ValidSizes
    /\ RemainderAppended
    /\ Len(merged[Len(merged)]) > max_chunk_size
    /\ Len(result) >= 2

\* the split pass split nothing: every chunk of the merge pass fitted
NothingSplit == AllChunks(merged, LAMBDA c : Len(c) <= max_chunk_size)

\* C2 as claimed: for a text of more than two sentences, every chunk
\* chunk_by_semantic returns is at least min_chunk_size long.
C2_MinSizeBound ==
    (SemanticReturnedMany /\ ValidSizes)
        => AllChunks(result, LAMBDA c : Len(c) >= min_chunk_size)

\* C2 as amended: when the split pass splits nothing, a returned chunk shorter
\* than min_chunk_size is the only chunk of the result, or it is followed by a
\* chunk it could not be joined with (by one space) within max_chunk_size.
C2_UndersizedOnlyWhenForced ==
    (SemanticReturnedMany /\ ValidSizes /\ NothingSplit)
        => \A i \in 1..Len(result) :
               Len(result[i]) < min_chunk_size
                   => \/ Len(result) = 1
                      \/ /\ i < Len(result)
                         /\ Len(result[i]) + 1 + Len(result[i + 1]) > max_chunk_size

\* C2's case: the merge pass flushed an undersized buffer because the next raw
\* chunk did not fit, and the call returned it.
C2_Witness ==
    /\ SemanticReturnedMany
    /\ ValidSizes
    /\ NothingSplit
    /\ Len(result) >= 2
    /\ Len(result[1]) < min_chunk_size

\* the documented bounds of chunk_by_fixed_size's configuration
ValidFixedConfig == chunk_size >= 1 /\ 0 <= overlap /\ overlap < chunk_size

\* C3: chunk_by_fixed_size returns for every text and every configuration with
\* chunk_size >= 1 and 0 <= overlap < chunk_size.
C3_FixedTerminates == (op = "fixed" /\ ValidFixedConfig) ~> (pc = "returned")

\* C4: no strategy returns an empty or whitespace-only chunk.
C4_NoBlankChunk ==
    pc = "returned" => AllChunks(result, LAMBDA c : Strip(c) # <<>>)

\* C4's case: chunk_by_fixed_size returned chunks from a text with a window of
\* whitespace only, which it dropped.
C4_Witness ==
    /\ pc = "returned"
    /\ op = "fixed"
    /\ ValidFixedConfig
    /\ Len(result) >= 2
    /\ \E i \in 0..(Len(text) - chunk_size) :
           /\ i % (chunk_size - overlap) = 0
           /\ Strip(Slice(text, i, i + chunk_size)) = <<>>

\* C5: every chunk chunk_by_fixed_size returns is at most chunk_size long.
C5_FixedMaxSize ==
    (pc = "returned" /\ op = "fixed")
        => AllChunks(result, LAMBDA c : Len(c) <= chunk_size)

\* C5's case: the first window's cut was retreated, a later chunk was cut at the
\* raw window boundary, and the call returned.
C5_Witness ==
    /\ pc = "returned"
    /\ op = "fixed"
    /\ ValidFixedConfig
    /\ \E i \in 1..Len(result) : Len(result[i]) = chunk_size
    /\ Retreats(text, 0, chunk_size)
    /\ Len(result) >= 2

\* the chunk texts one after the other
RECURSIVE Concat(_)
Concat(cs) == IF cs = <<>> THEN <<>> ELSE Head(cs) \o Concat(Tail(cs))

\* a text without its whitespace
NoSpace(s) == SelectSeq(s, LAMBDA c : ~IsSpace(c))

\* the call's configuration is within the documented bounds
ValidConfig ==
    CASE op = "fixed" -> ValidFixedConfig
      [] op = "paragraph" -> min_chunk_size >= 1
      [] OTHER -> /\ ValidSizes
                  /\ 0 <= breakpoint_percentile
                  /\ breakpoint_percentile <= 100

NoOverlapUsed ==
    \/ op = "paragraph"
    \/ op = "fixed" /\ overlap = 0
    \/ op = "semantic" /\ NothingSplit

PastBreakpoints ==
    op = "semantic" /\ pc \in {"split", "fs_loop", "fs_body", "returned"}

\* C7: the breakpoint list is strictly increasing and each breakpoint is a
\* position of the similarity list, which for one vector per sentence is
\* [1, N - 1] for N sentences.
C7_BreakpointsIncreasing ==
    PastBreakpoints
        => /\ \A i \in 1..(Len(breakpoints) - 1) : breakpoints[i] < breakpoints[i + 1]
           /\ \A i \in 1..Len(breakpoints) :
                  /\ 1 <= breakpoints[i]
                  /\ breakpoints[i] <= Len(similarities)
                  /\ n_embeddings = Len(sentences) => breakpoints[i] <= Len(sentences) - 1

\* C7's case: one vector per sentence and two breakpoints found.
C7_Witness ==
    /\ PastBreakpoints
    /\ n_embeddings = Len(sentences)
    /\ Len(breakpoints) >= 2

\* C8: for at most two sentences chunk_by_semantic returns, without asking the
\* provider, the sentences joined by one space as the only chunk, or no chunk
\* when that join is empty, whatever the sizes.
C8_FewSentencesOneChunk ==
    (op = "semantic" /\ pc # "call" /\ Len(sentences) <= 2)
        => /\ pc = "returned"
           /\ n_embeddings = 0
           /\ result = IF Join(sentences, Space) = <<>> THEN <<>>
                        ELSE <<Join(sentences, Space)>>

\* C8's case: two sentences returned as one chunk shorter than min_chunk_size.
C8_Witness ==
    /\ op = "semantic"
    /\ pc = "returned"
    /\ Len(sentences) = 2
    /\ Len(result) = 1
    /\ Len(result[1]) < min_chunk_size

\* C9: a call with a configuration outside the documented bounds is rejected
\* at once: it produces no chunk, runs no loop and returns no list (a blank
\* text, for which an empty list is the documented answer, set aside).
C9_InvalidConfigRejected ==
    (~ValidConfig /\ Strip(text) # <<>>)
        => /\ pc \in {"call", "raised"}
           /\ chunks = <<>>
           /\ merged = <<>>
           /\ result = <<>>

\* C10: when the provider answers with a number of vectors other than the
\* number of sentences, chunk_by_semantic builds no chunk and returns no list.
C10_MismatchFails ==
    (op = "semantic" /\ Len(sentences) > 2 /\ pc \notin {"call", "embed", "raised"})
        => n_embeddings = Len(sentences)

\* C13 as claimed: clean_text applied to its own result returns it unchanged.
C13_Idempotent == clean_pc = "twice" => recleaned = cleaned

\* C14 as claimed: the text clean_text returns never holds three newlines in a
\* row.
C14_NoTripleNewline ==
    clean_pc \in {"once", "twice"} => Find(cleaned, <<"\n", "\n", "\n">>) = -1

\* C20 as claimed: when the word dictionary cannot be obtained, clean_text
\* raises nothing and returns what it returns with repair_broken_words leaving
\* its input unchanged.
C20_NoDictionaryNoFailure ==
    (nltk_env \in {"not_installed", "corpus_missing"} /\ clean_pc \notin {"idle", "call"})
        => /\ clean_pc # "raised"
           /\ cleaned = NormalizeTail(NormalizeHead(CleanStages(raw)), {})

\* the positions among the first n files whose document raised, in order
RECURSIVE FailedAmong(_, _, _)
FailedAmong(env, fs, n) ==
    IF n = 0 THEN <<>>
    ELSE FailedAmong(env, fs, n - 1)
             \o (IF FileError(fs[n], ProcessFile(env, fs[n])) # "" THEN <<n>> ELSE <<>>)

\* the positions among the first n files whose document was written, in order
RECURSIVE WrittenAmong(_, _, _)
WrittenAmong(env, fs, n) ==
    IF n = 0 THEN <<>>
    ELSE WrittenAmong(env, fs, n - 1)
             \o (IF FileError(fs[n], ProcessFile(env, fs[n])) = "" THEN <<n>> ELSE <<>>)

\* C11: at every point of run()'s loop each document met so far that raised
\* is in errors with its path and message, each document met so far that did
\* not is in output_paths, both in file order, and run() returns only after
\* the last file.
C11_FailureIsolated ==
    run_pc \in {"loop", "returned"}
        => /\ fidx <= Len(files) + 1
           /\ run_pc = "returned" => fidx = Len(files) + 1
           /\ errors = [k \in 1..Len(FailedAmong(nltk_env, files, fidx - 1)) |->
                  <<FailedAmong(nltk_env, files, fidx - 1)[k],
                    FileError(files[FailedAmong(nltk_env, files, fidx - 1)[k]],
                              ProcessFile(nltk_env,
                                  files[FailedAmong(nltk_env, files, fidx - 1)[k]]))>>]
           /\ output_paths =
                  [k \in 1..Len(WrittenAmong(nltk_env, files, fidx - 1)) |->
                      OutputPath(WrittenAmong(nltk_env, files, fidx - 1)[k])]

\* C11's case: run() returned after a document that raised between two
\* documents that were written.
C11_Witness ==
    /\ run_pc = "returned"
    /\ Len(files) = 3
    /\ output_paths = <<OutputPath(1), OutputPath(3)>>
    /\ Len(errors) = 1
    /\ errors[1][1] = 2

\* C12 as claimed: process_file, on a document whose extractor yields
\* sections of which at least one is non-empty after cleaning, returns chunks
\* numbered 0, 1, ... in emission order and grouped by section in section
\* order.
C12_ChunkIdsInOrder ==
    (/\ run_pc \in {"loop", "returned"}
     /\ fidx > 1
     /\ fidx <= Len(files) + 1
     /\ files[fidx - 1].extract = "ok"
     /\ nltk_env # "corpus_missing"
     /\ CleanedPages(CleanPages(nltk_env, files[fidx - 1].pages), 1) # <<>>)
        => /\ document.error = ""
           /\ document.chunks # <<>>
           /\ \A k \in 1..Len(document.chunks) : document.chunks[k].chunk_id = k - 1
           /\ \A k \in 1..(Len(document.chunks) - 1) :
                  document.chunks[k].page <= document.chunks[k + 1].page

\* C16 as claimed: chunk_by_semantic, called with 1 <= min_chunk_size <=
\* max_chunk_size and breakpoint_percentile in [0, 100], comes to an end.
C16_SemanticTerminates ==
    (op = "semantic" /\ ValidConfig) ~> (pc \in {"returned", "raised"})

\* chunk_by_semantic computed a threshold from a non-empty similarity list
ThresholdComputed ==
    PastBreakpoints /\ Len(sentences) > 2 /\ similarities # <<>>

\* 100 times the threshold chunk_by_semantic computes for percentile p
Threshold100(p) == Percentile100(similarities, 100 - p)

AllSimilaritiesEqual ==
    \A i, j \in 1..Len(similarities) : similarities[i] = similarities[j]

\* C17: a pair whose similarity equals the threshold gives no breakpoint; when
\* all similarities are equal there is no breakpoint, the sentences form one
\* raw chunk, and what chunk_by_semantic returns holds at least one chunk,
\* none of them blank.
C17_TiesDoNotBreak ==
    ThresholdComputed
        => /\ \A i \in 1..Len(similarities) :
                  100 * similarities[i] = Threshold100(breakpoint_percentile)
                      => \A k \in 1..Len(breakpoints) : breakpoints[k] # i
           /\ AllSimilaritiesEqual
                  => /\ breakpoints = <<>>
                     /\ raw_chunks = <<Strip(Join(sentences, Space))>>
                     /\ pc = "returned"
                            => /\ result # <<>>
                               /\ AllChunks(result, LAMBDA c : Strip(c) # <<>>)

\* C17's case: chunk_by_semantic returned for three or more sentences with
\* two or more similarities, all equal.
C17_Witness ==
    /\ ThresholdComputed
    /\ pc = "returned"
    /\ Len(similarities) >= 2
    /\ AllSimilaritiesEqual
    /\ result # <<>>

\* the percentiles the computed breakpoints are compared at
PercentileStep == 5

PercentileGrid == {p \in 0..100 : p % PercentileStep = 0}

SeqRange(s) == {s[i] : i \in 1..Len(s)}

\* C18: for the similarities at hand, a percentile at or above the one given
\* has a threshold no higher, breakpoints that are a subset of those found,
\* and no more raw chunks.
C18_PercentileMonotone ==
    (ThresholdComputed /\ ~PercentileRaises(100 - breakpoint_percentile))
        => \A p2 \in PercentileGrid :
              p2 >= breakpoint_percentile
                  => /\ Threshold100(p2) <= Threshold100(breakpoint_percentile)
                     /\ SeqRange(FindBreakpoints(similarities, Threshold100(p2), 0))
                            \subseteq SeqRange(breakpoints)
                     /\ Len(GroupSentences(sentences,
                                FindBreakpoints(similarities, Threshold100(p2), 0), 0))
                            <= Len(raw_chunks)

\* C18's case: the percentile given is 0 and found breakpoints, and the
\* percentile 100 finds none on the same similarities.
C18_Witness ==
    /\ ThresholdComputed
    /\ breakpoint_percentile = 0
    /\ breakpoints # <<>>
    /\ FindBreakpoints(similarities, Threshold100(100), 0) = <<>>
    /\ Len(raw_chunks) > 1

\* the summed lengths of paragraphs: chunk_by_paragraph's current_length
RECURSIVE ParagraphSum(_)
ParagraphSum(ps) == IF ps = <<>> THEN 0 ELSE Len(Head(ps)) + ParagraphSum(Tail(ps))

\* the paragraphs a chunk was joined from
ChunkParagraphs(chunk) == Split(chunk, BlankLine)

RECURSIVE AllChunkParagraphs(_)
AllChunkParagraphs(cs) ==
    IF cs = <<>> THEN <<>>
    ELSE ChunkParagraphs(Head(cs)) \o AllChunkParagraphs(Tail(cs))

\* the first j of the paragraphs ps reach min_size and the first j - 1 do not
FlushedAt(ps, j, min_size) ==
    /\ j >= 1
    /\ ParagraphSum(SubSeq(ps, 1, j)) >= min_size
    /\ ParagraphSum(SubSeq(ps, 1, j - 1)) < min_size

\* the last chunk is a flushed chunk followed by an undersized remainder
RemainderJoined(ps, min_size) ==
    \E j \in 1..(Len(ps) - 1) :
        /\ FlushedAt(ps, j, min_size)
        /\ ParagraphSum(SubSeq(ps, j + 1, Len(ps))) < min_size

\* C19: chunk_by_paragraph returns the stripped non-empty paragraphs whole and
\* in order; every chunk but the last ends with the paragraph at which the
\* accumulated length reached min_chunk_size; the last chunk is such a chunk,
\* or such a chunk followed by a remainder below min_chunk_size, or, as the
\* only chunk, a remainder below min_chunk_size; a chunk shorter than
\* min_chunk_size is the only chunk.
C19_ParagraphFlush ==
    (op = "paragraph" /\ pc = "returned")
        => /\ AllChunkParagraphs(result) = StripAndDropEmpty(Split(text, BlankLine))
           /\ \A k \in 1..(Len(result) - 1) :
                  FlushedAt(ChunkParagraphs(result[k]),
                            Len(ChunkParagraphs(result[k])), min_chunk_size)
           /\ result # <<>>
                  => \/ FlushedAt(ChunkParagraphs(result[Len(result)]),
                                  Len(ChunkParagraphs(result[Len(result)])), min_chunk_size)
                     \/ RemainderJoined(ChunkParagraphs(result[Len(result)]), min_chunk_size)
                     \/ /\ Len(result) = 1
                        /\ ParagraphSum(ChunkParagraphs(result[1])) < min_chunk_size
           /\ \A k \in 1..Len(result) :
                  Len(result[k]) < min_chunk_size => Len(result) = 1
           /\ Strip(text) # <<>> => result # <<>>

\* C19's case: chunk_by_paragraph returned two or more chunks, the last of
\* them a flushed chunk with an undersized remainder joined to it.
C19_Witness ==
    /\ op = "paragraph"
    /\ pc = "returned"
    /\ Len(result) >= 2
    /\ RemainderJoined(ChunkParagraphs(result[Len(result)]), min_chunk_size)

\* C15 as claimed: the embedding model and the word set are each constructed
\* at most once in the process, and all callers of the same function that
\* have returned hold the same object.
C15_ConstructedOnce ==
    /\ n_models <= 1
    /\ n_word_sets <= 1
    /\ \A t, u \in DOMAIN tpc :
           (tcall[t] = tcall[u] /\ tpc[t] = "done" /\ tpc[u] = "done")
               => tres[t] = tres[u]


=============================================================================
